---------------------------- MODULE Spec2Model ----------------------------
(***************************************************************************)
(* A model of retour's interactive command-history browser: the Filter     *)
(* (filter text + filtered records) and the Bubble Tea Model whose Update  *)
(* handles one message at a time.                                          *)
(*                                                                         *)
(* Go strings are byte sequences.  A byte is written as a TLA+ string:     *)
(* an ASCII byte is its own character ("g", " "), a byte of a multi-byte   *)
(* UTF-8 encoding is written "xC3", "xA9", ...  Go indexes from 0 and      *)
(* TLA+ sequences from 1: s[:p] is SubSeq(s, 1, p), s[p:] is               *)
(* SubSeq(s, p+1, Len(s)) and s[i] is s[i+1].                              *)
(***************************************************************************)
EXTENDS Integers, Sequences, FiniteSets, TLC

VARIABLES
    filter,      \* Model.filter: the Filter {records, filteredRecords, filter}
    cursor,      \* Model.cursor: current selection in the list
    textCursor,  \* Model.textCursor: cursor position in the filter input
    selected,    \* Model.selected: whether a selection has been made
    height,      \* Model.height: terminal height
    cmd,         \* the tea.Cmd returned by the last Update ("nil" or "Quit")
    msg,         \* the tea.Msg handled by the last Update
    quitSent     \* history: some Update has already returned tea.Quit

vars == <<filter, cursor, textCursor, selected, height, cmd, msg, quitSent>>

-----------------------------------------------------------------------------
(* Bounds of the model *)

MaxRecords == 3
MaxFilterLen == 2
MaxRunes == 2
MaxHeight == 4

-----------------------------------------------------------------------------
(* Bytes, runes and the strings package *)

Max(a, b) == IF a > b THEN a ELSE b

\* Go's min helper of ui.go
min(a, b) == IF a < b THEN a ELSE b

\* Go's s[lo:hi] on a byte string, 0-based half-open
Slice(s, lo, hi) == SubSeq(s, lo + 1, hi)

\* The bytes >= utf8.RuneSelf of this model's alphabet
HighBytes == {"xC3", "xA9", "x89", "xEF", "xBF", "xBD"}

\* utf8.EncodeRune / string(rune): "eacute" is U+00E9, "Eacute" is U+00C9,
\* "RuneError" is U+FFFD; every other rune is ASCII and encodes as itself
EncodeRune(r) ==
    CASE r = "eacute"    -> <<"xC3", "xA9">>
      [] r = "Eacute"    -> <<"xC3", "x89">>
      [] r = "RuneError" -> <<"xEF", "xBF", "xBD">>
      [] OTHER           -> <<r>>

\* string([]rune): the concatenated encodings
RECURSIVE EncodeRunes(_)
EncodeRunes(rs) ==
    IF rs = <<>> THEN <<>> ELSE EncodeRune(Head(rs)) \o EncodeRunes(Tail(rs))

\* utf8.DecodeRuneInString(s[i:]) (i 1-based): an ASCII byte is itself, a
\* complete two-byte encoding is its rune, any other byte is RuneError, width 1
DecodeRune(s, i) ==
    IF s[i] \notin HighBytes THEN [rune |-> s[i], width |-> 1]
    ELSE IF s[i] = "xC3" /\ i < Len(s) /\ s[i + 1] = "xA9"
        THEN [rune |-> "eacute", width |-> 2]
    ELSE IF s[i] = "xC3" /\ i < Len(s) /\ s[i + 1] = "x89"
        THEN [rune |-> "Eacute", width |-> 2]
    ELSE [rune |-> "RuneError", width |-> 1]

\* unicode.ToLower on the runes of the alphabet
UnicodeToLower(r) ==
    CASE r = "G"      -> "g"
      [] r = "L"      -> "l"
      [] r = "M"      -> "m"
      [] r = "Eacute" -> "eacute"
      [] OTHER        -> r

\* strings.Map(unicode.ToLower, s): decodes rune by rune; an invalid byte
\* decodes to RuneError and is written as U+FFFD
RECURSIVE MapToLower(_, _)
MapToLower(s, i) ==
    IF i > Len(s) THEN <<>>
    ELSE LET d == DecodeRune(s, i)
         IN  EncodeRune(UnicodeToLower(d.rune)) \o MapToLower(s, i + d.width)

\* strings.ToLower: byte-wise on an ASCII-only string, strings.Map otherwise
ToLower(s) ==
    IF \A i \in 1..Len(s) : s[i] \notin HighBytes
    THEN [i \in 1..Len(s) |-> UnicodeToLower(s[i])]
    ELSE MapToLower(s, 1)

\* strings.Contains(s, substr): a byte-wise substring search
Contains(s, substr) ==
    \E i \in 0..(Len(s) - Len(substr)) : Slice(s, i, i + Len(substr)) = substr

-----------------------------------------------------------------------------
(* Records *)

Record(id, command, arguments, exitStatus) ==
    [ID |-> id, Command |-> command, Timestamp |-> 0 - id,
     WorkingDirectory |-> "/home/user", ExitStatus |-> exitStatus,
     Arguments |-> arguments]

\* Record{}: the zero value
ZeroRecord ==
    [ID |-> 0, Command |-> <<>>, Timestamp |-> 0, WorkingDirectory |-> "",
     ExitStatus |-> 0, Arguments |-> <<>>]

\* The records a session is started with: none, or the first MaxRecords of
\* this list
RecordPool ==
    << Record(1, <<"l", "s">>, <<"-", "l", "a">>, 0),
       Record(2, <<"g", "i", "t">>, <<"l", "o", "g">>, 0),
       Record(3, <<"M", "a", "k", "e">>, <<"G", " ", "xC3", "xA9">>, 1),
       Record(4, <<"e", "g", "g">>, <<>>, 0),
       Record(5, <<"L", "S">>, <<"xC3", "x89">>, 0) >>


-----------------------------------------------------------------------------
(* Filter: the records, the filter text and the filtered records *)

\* NewFilter that starts with no record shown
NewFilter_NoneShown(records) ==
    [records |-> records, filteredRecords |-> <<>>, filter |-> <<>>]

\* NewFilter: initially all records are shown and the filter text is empty
NewFilter(records) ==
    [records |-> records, filteredRecords |-> records, filter |-> <<>>]

\* The loop with only the command compared, the arguments forgotten
RECURSIVE FilterLoop_CommandOnly(_, _, _)
FilterLoop_CommandOnly(records, lowerFilter, i) ==
    IF i > Len(records) THEN <<>>
    ELSE LET record == records[i]
         IN  (IF Contains(ToLower(record.Command), lowerFilter)
              THEN <<record>> ELSE <<>>)
             \o FilterLoop_CommandOnly(records, lowerFilter, i + 1)

\* The body of UpdateFilter's loop over f.records, from index i on: a record is
\* appended iff its lower-cased command or arguments contain lowerFilter
RECURSIVE FilterLoop(_, _, _)
FilterLoop(records, lowerFilter, i) ==
    IF i > Len(records) THEN <<>>
    ELSE LET record == records[i]
             lowerCommand == ToLower(record.Command)
             lowerArgs == ToLower(record.Arguments)
         IN  (IF Contains(lowerCommand, lowerFilter) \/ Contains(lowerArgs, lowerFilter)
              THEN <<record>> ELSE <<>>)
             \o FilterLoop(records, lowerFilter, i + 1)

\* UpdateFilter that matches against the text the Filter held before the call
UpdateFilter_StaleText(f, filterText) ==
    IF f.filter = <<>>
    THEN [f EXCEPT !.filter = filterText, !.filteredRecords = f.records]
    ELSE [f EXCEPT !.filter = filterText,
                   !.filteredRecords = FilterLoop(f.records, ToLower(f.filter), 1)]

\* UpdateFilter with the filter text compared as typed, not lower-cased
UpdateFilter_NoFold(f, filterText) ==
    IF filterText = <<>>
    THEN [f EXCEPT !.filter = filterText, !.filteredRecords = f.records]
    ELSE [f EXCEPT !.filter = filterText,
                   !.filteredRecords = FilterLoop(f.records, filterText, 1)]

\* UpdateFilter that narrows the full record set along with the filtered one
UpdateFilter_NarrowsRecords(f, filterText) ==
    IF filterText = <<>>
    THEN [f EXCEPT !.filter = filterText, !.filteredRecords = f.records]
    ELSE LET filtered == FilterLoop(f.records, ToLower(filterText), 1)
         IN  [f EXCEPT !.filter = filterText, !.filteredRecords = filtered,
                       !.records = filtered]

\* Filter.UpdateFilter: sets the filter text and refreshes the filtered records
UpdateFilter(f, filterText) ==
    IF filterText = <<>>
    THEN [f EXCEPT !.filter = filterText, !.filteredRecords = f.records]
    ELSE [f EXCEPT !.filter = filterText,
                   !.filteredRecords = FilterLoop(f.records, ToLower(filterText), 1)]

\* Filter.InsertTextAtCursor
InsertTextAtCursor(f, text, cursorPos) ==
    IF Len(text) = 0 THEN f
    ELSE LET p0 == IF cursorPos < 0 THEN 0 ELSE cursorPos
             p  == IF p0 > Len(f.filter) THEN Len(f.filter) ELSE p0
         IN  UpdateFilter(f, Slice(f.filter, 0, p) \o text
                             \o Slice(f.filter, p, Len(f.filter)))

\* Filter.InsertCharAtCursor
InsertCharAtCursor(f, char, cursorPos) ==
    InsertTextAtCursor(f, EncodeRune(char), cursorPos)

\* RemoveCharBeforeCursor that removes the character at the cursor instead
RemoveCharBeforeCursor_AtCursor(f, cursorPos) ==
    IF cursorPos > 0 /\ cursorPos <= Len(f.filter)
    THEN UpdateFilter(f, Slice(f.filter, 0, cursorPos)
                         \o Slice(f.filter, cursorPos + 1, Len(f.filter)))
    ELSE f

\* Filter.RemoveCharBeforeCursor
RemoveCharBeforeCursor(f, cursorPos) ==
    IF cursorPos > 0 /\ cursorPos <= Len(f.filter)
    THEN UpdateFilter(f, Slice(f.filter, 0, cursorPos - 1)
                         \o Slice(f.filter, cursorPos, Len(f.filter)))
    ELSE f

\* RemoveTextBeforeCursor without the clamp of a negative newPos
RemoveTextBeforeCursor_NoLowClamp(f, newPos, cursorPos) ==
    LET cp == IF cursorPos > Len(f.filter) THEN Len(f.filter) ELSE cursorPos
    IN  IF 0 <= newPos /\ newPos < cp
        THEN UpdateFilter(f, Slice(f.filter, 0, newPos)
                             \o Slice(f.filter, cp, Len(f.filter)))
        ELSE f

\* Filter.RemoveTextBeforeCursor
RemoveTextBeforeCursor(f, newPos, cursorPos) ==
    LET np == IF newPos < 0 THEN 0 ELSE newPos
        cp == IF cursorPos > Len(f.filter) THEN Len(f.filter) ELSE cursorPos
    IN  IF np < cp
        THEN UpdateFilter(f, Slice(f.filter, 0, np) \o Slice(f.filter, cp, Len(f.filter)))
        ELSE f

\* RemoveTextAfterCursor that keeps the character under the cursor
RemoveTextAfterCursor_KeepsOne(f, cursorPos) ==
    IF cursorPos >= 0 /\ cursorPos <= Len(f.filter)
    THEN UpdateFilter(f, Slice(f.filter, 0, cursorPos + 1))
    ELSE f

\* Filter.RemoveTextAfterCursor
RemoveTextAfterCursor(f, cursorPos) ==
    IF cursorPos >= 0 /\ cursorPos <= Len(f.filter)
    THEN UpdateFilter(f, Slice(f.filter, 0, cursorPos))
    ELSE f

-----------------------------------------------------------------------------
(* Model *)

\* findWordStart: the first loop skips the spaces immediately before pos
RECURSIVE SkipSpaces(_, _)
SkipSpaces(text, pos) ==
    IF pos > 0 /\ pos - 1 < Len(text) /\ text[pos] = " "
    THEN SkipSpaces(text, pos - 1) ELSE pos

\* findWordStart: the second loop skips the word before that
RECURSIVE SkipWord(_, _)
SkipWord(text, pos) ==
    IF pos > 0 /\ pos - 1 < Len(text) /\ text[pos] # " "
    THEN SkipWord(text, pos - 1) ELSE pos

\* findWordStart without its first loop: the spaces before pos are not skipped
findWordStart_NoSpaceSkip(text, pos) == SkipWord(text, pos)

\* findWordStart that returns the index before the word start
findWordStart_OffByOne(text, pos) == SkipWord(text, SkipSpaces(text, pos)) - 1

findWordStart(text, pos) == SkipWord(text, SkipSpaces(text, pos))

\* Selected without the test of the selected flag
Selected_IgnoresFlag ==
    IF Len(filter.filteredRecords) = 0
    THEN [record |-> ZeroRecord, ok |-> FALSE, panic |-> FALSE]
    ELSE IF cursor < 0 \/ cursor >= Len(filter.filteredRecords)
    THEN [record |-> ZeroRecord, ok |-> FALSE, panic |-> TRUE]
    ELSE [record |-> filter.filteredRecords[cursor + 1], ok |-> TRUE, panic |-> FALSE]

\* Model.Selected: (record, ok); indexing filteredRecords[m.cursor] out of range
\* is a run-time panic
Selected ==
    IF ~selected \/ Len(filter.filteredRecords) = 0
    THEN [record |-> ZeroRecord, ok |-> FALSE, panic |-> FALSE]
    ELSE IF cursor < 0 \/ cursor >= Len(filter.filteredRecords)
    THEN [record |-> ZeroRecord, ok |-> FALSE, panic |-> TRUE]
    ELSE [record |-> filter.filteredRecords[cursor + 1], ok |-> TRUE, panic |-> FALSE]

\* The messages delivered to Update
KeyMsg(key) == [type |-> "KeyMsg", key |-> key, runes |-> <<>>, height |-> 0]
RunesMsg(runes) == [type |-> "KeyMsg", key |-> "Runes", runes |-> runes, height |-> 0]
WindowSizeMsg(h) == [type |-> "WindowSizeMsg", key |-> "", runes |-> <<>>, height |-> h]
NoMsg == [type |-> "none", key |-> "", runes |-> <<>>, height |-> 0]

\* The runes a key press or a paste can carry: an upper-case ASCII letter and
\* a two-byte rune (the space bar is its own key, tea.KeySpace)
InputRunes == {"G", "eacute"}
RuneSeqs == UNION {[1..n -> InputRunes] : n \in 1..MaxRunes}
Heights == (0 - 1)..MaxHeight

\* What Update returns besides the model, and the message it handled
Return(c, message) ==
    /\ cmd' = c
    /\ msg' = message
    /\ quitSent' = (quitSent \/ c = "Quit")

\* NewUI(NewFilter(records))
Init ==
    /\ \E n \in {0, MaxRecords} : filter = NewFilter(SubSeq(RecordPool, 1, n))
    /\ cursor = 0
    /\ textCursor = 0
    /\ selected = FALSE
    /\ height = 0
    /\ cmd = "nil"
    /\ msg = NoMsg
    /\ quitSent = FALSE

\* Ctrl-C handled as a confirmation: the selected flag is set too
KeyCtrlC_SetsSelected ==
    /\ Return("Quit", KeyMsg("CtrlC"))
    /\ selected' = TRUE
    /\ UNCHANGED <<filter, cursor, textCursor, height>>

\* case tea.KeyCtrlC
KeyCtrlC ==
    /\ Return("Quit", KeyMsg("CtrlC"))
    /\ UNCHANGED <<filter, cursor, textCursor, selected, height>>

\* Up without the cursor > 0 guard
KeyUp_NoClamp ==
    /\ \E k \in {"Up", "CtrlP"} : Return("nil", KeyMsg(k))
    /\ cursor' = cursor - 1
    /\ UNCHANGED <<filter, textCursor, selected, height>>

\* case tea.KeyUp, tea.KeyCtrlP
KeyUp ==
    /\ \E k \in {"Up", "CtrlP"} : Return("nil", KeyMsg(k))
    /\ cursor' = IF cursor > 0 THEN cursor - 1 ELSE cursor
    /\ UNCHANGED <<filter, textCursor, selected, height>>

\* Down without the cursor < len - 1 guard
KeyDown_NoClamp ==
    /\ \E k \in {"Down", "CtrlN"} : Return("nil", KeyMsg(k))
    /\ cursor' = cursor + 1
    /\ UNCHANGED <<filter, textCursor, selected, height>>

\* case tea.KeyDown, tea.KeyCtrlN
KeyDown ==
    /\ \E k \in {"Down", "CtrlN"} : Return("nil", KeyMsg(k))
    /\ cursor' = IF cursor < Len(filter.filteredRecords) - 1 THEN cursor + 1 ELSE cursor
    /\ UNCHANGED <<filter, textCursor, selected, height>>

\* Enter ignored when nothing is listed
KeyEnter_SkipEmpty ==
    IF Len(filter.filteredRecords) = 0
    THEN /\ Return("nil", KeyMsg("Enter"))
         /\ UNCHANGED <<filter, cursor, textCursor, selected, height>>
    ELSE /\ Return("Quit", KeyMsg("Enter"))
         /\ selected' = TRUE
         /\ UNCHANGED <<filter, cursor, textCursor, height>>

\* Enter that also puts the caret back at the start of the filter text
KeyEnter_ResetsCaret ==
    /\ Return("Quit", KeyMsg("Enter"))
    /\ selected' = TRUE
    /\ textCursor' = 0
    /\ UNCHANGED <<filter, cursor, height>>

\* case tea.KeyEnter
KeyEnter ==
    /\ Return("Quit", KeyMsg("Enter"))
    /\ selected' = TRUE
    /\ UNCHANGED <<filter, cursor, textCursor, height>>

\* case tea.KeyBackspace
KeyBackspace ==
    /\ Return("nil", KeyMsg("Backspace"))
    /\ IF Len(filter.filter) > 0 /\ textCursor > 0
       THEN /\ filter' = RemoveCharBeforeCursor(filter, textCursor)
            /\ textCursor' = textCursor - 1
       ELSE UNCHANGED <<filter, textCursor>>
    /\ UNCHANGED <<cursor, selected, height>>

\* Left without the textCursor > 0 guard
KeyLeft_NoClamp ==
    /\ Return("nil", KeyMsg("Left"))
    /\ textCursor' = textCursor - 1
    /\ UNCHANGED <<filter, cursor, selected, height>>

\* case tea.KeyLeft
KeyLeft ==
    /\ Return("nil", KeyMsg("Left"))
    /\ textCursor' = IF textCursor > 0 THEN textCursor - 1 ELSE textCursor
    /\ UNCHANGED <<filter, cursor, selected, height>>

\* Right without the textCursor < len(filter) guard
KeyRight_NoClamp ==
    /\ Return("nil", KeyMsg("Right"))
    /\ textCursor' = textCursor + 1
    /\ UNCHANGED <<filter, cursor, selected, height>>

\* case tea.KeyRight
KeyRight ==
    /\ Return("nil", KeyMsg("Right"))
    /\ textCursor' = IF textCursor < Len(filter.filter) THEN textCursor + 1 ELSE textCursor
    /\ UNCHANGED <<filter, cursor, selected, height>>

\* case tea.KeyCtrlA
KeyCtrlA ==
    /\ Return("nil", KeyMsg("CtrlA"))
    /\ textCursor' = 0
    /\ UNCHANGED <<filter, cursor, selected, height>>

\* case tea.KeyCtrlE
KeyCtrlE ==
    /\ Return("nil", KeyMsg("CtrlE"))
    /\ textCursor' = Len(filter.filter)
    /\ UNCHANGED <<filter, cursor, selected, height>>

\* case tea.KeyCtrlW
KeyCtrlW ==
    /\ Return("nil", KeyMsg("CtrlW"))
    /\ IF textCursor > 0
       THEN LET newPos == findWordStart(filter.filter, textCursor)
            IN  /\ filter' = RemoveTextBeforeCursor(filter, newPos, textCursor)
                /\ textCursor' = newPos
       ELSE UNCHANGED <<filter, textCursor>>
    /\ UNCHANGED <<cursor, selected, height>>

\* case tea.KeyCtrlK
KeyCtrlK ==
    /\ Return("nil", KeyMsg("CtrlK"))
    /\ filter' = IF textCursor < Len(filter.filter)
                 THEN RemoveTextAfterCursor(filter, textCursor)
                 ELSE filter
    /\ UNCHANGED <<cursor, textCursor, selected, height>>

\* case tea.KeySpace
KeySpace ==
    /\ Len(filter.filter) + 1 <= MaxFilterLen
    /\ Return("nil", KeyMsg("Space"))
    /\ filter' = InsertCharAtCursor(filter, " ", textCursor)
    /\ textCursor' = textCursor + 1
    /\ UNCHANGED <<cursor, selected, height>>

\* case tea.KeyRunes
KeyRunes ==
    \E runes \in RuneSeqs :
        /\ Len(filter.filter) + Len(EncodeRunes(runes)) <= MaxFilterLen
        /\ Return("nil", RunesMsg(runes))
        /\ filter' = InsertTextAtCursor(filter, EncodeRunes(runes), textCursor)
        /\ textCursor' = textCursor + Len(runes)
        /\ UNCHANGED <<cursor, selected, height>>

\* A key with no case in the switch that ends the session
KeyOther_Quits ==
    /\ Return("Quit", KeyMsg("Tab"))
    /\ UNCHANGED <<filter, cursor, textCursor, selected, height>>

\* A key with no case in the switch (tea.KeyTab, ...)
KeyOther ==
    /\ Return("nil", KeyMsg("Tab"))
    /\ UNCHANGED <<filter, cursor, textCursor, selected, height>>

\* A resize that also puts the list cursor back on the first row
Resize_ResetsCursor(h) ==
    /\ Return("nil", WindowSizeMsg(h))
    /\ height' = h
    /\ cursor' = 0
    /\ UNCHANGED <<filter, textCursor, selected>>

\* case tea.WindowSizeMsg, for a message carrying Height h
Resize(h) ==
    /\ Return("nil", WindowSizeMsg(h))
    /\ height' = h
    /\ UNCHANGED <<filter, cursor, textCursor, selected>>

\* case tea.WindowSizeMsg
WindowSize == \E h \in Heights : Resize(h)

\* Model.Update, one message at a time
Next ==
    \/ KeyCtrlC
    \/ KeyUp
    \/ KeyDown
    \/ KeyEnter
    \/ KeyBackspace
    \/ KeyLeft
    \/ KeyRight
    \/ KeyCtrlA
    \/ KeyCtrlE
    \/ KeyCtrlW
    \/ KeyCtrlK
    \/ KeySpace
    \/ KeyRunes
    \/ KeyOther
    \/ WindowSize

Spec == Init /\ [][Next]_vars

-----------------------------------------------------------------------------
(* View *)

\* formatRecord: the status mark (U+2713 or U+2717), the command and the
\* arguments, separated by spaces
formatRecord(r) ==
    (IF r.ExitStatus # 0 THEN <<"xE2", "x9C", "x97">> ELSE <<"xE2", "x9C", "x93">>)
    \o <<" ">> \o r.Command \o <<" ">> \o r.Arguments

\* string(b) of a single byte b: the UTF-8 encoding of the code point b
ByteToString(b) ==
    CASE b = "xC3" -> <<"xC3", "x83">>
      [] b = "xA9" -> <<"xC2", "xA9">>
      [] b = "x89" -> <<"xC2", "x89">>
      [] b = "xEF" -> <<"xC3", "xAF">>
      [] b = "xBF" -> <<"xC2", "xBF">>
      [] b = "xBD" -> <<"xC2", "xBD">>
      [] OTHER     -> <<b>>

\* The visible range without scrolling: the window always starts at row 0
VisibleRange_NoScroll(total, listCursor, maxItems) ==
    [start |-> 0, end |-> min(maxItems, total)]

\* The visible range that starts scrolling one row late, only once the cursor
\* is beyond maxItems
VisibleRange_ScrollLate(total, listCursor, maxItems) ==
    LET start == IF total > maxItems /\ listCursor > maxItems
                 THEN listCursor - maxItems + 1 ELSE 0
    IN  [start |-> start, end |-> min(start + maxItems, total)]

\* View: which items to show, start and end of filteredRecords[start:end]
VisibleRange(total, listCursor, maxItems) ==
    LET start == IF total > maxItems /\ listCursor >= maxItems
                 THEN listCursor - maxItems + 1 ELSE 0
    IN  [start |-> start, end |-> min(start + maxItems, total)]

\* View: the rendered rows, each with its text and whether it is styled as
\* the selected one
ViewRows(start, end) ==
    [i \in 1..(end - start) |->
        LET line == formatRecord(filter.filteredRecords[start + i])
        IN  IF (i - 1) + start = cursor
            THEN [text |-> <<">", " ">> \o line, selected |-> TRUE]
            ELSE [text |-> <<" ", " ">> \o line, selected |-> FALSE]]

\* View: the filter input line, split at textCursor; the character under the
\* cursor is shown reversed, a block when the cursor is at the end
ViewInput ==
    LET beforeCursor == Slice(filter.filter, 0, textCursor)
        afterCursor == Slice(filter.filter, textCursor, Len(filter.filter))
    IN  IF Len(afterCursor) > 0
        THEN [before |-> beforeCursor, cursorChar |-> ByteToString(afterCursor[1]),
              after |-> Tail(afterCursor)]
        ELSE [before |-> beforeCursor, cursorChar |-> <<"block">>, after |-> afterCursor]

NoInput == [before |-> <<>>, cursorChar |-> <<>>, after |-> <<>>]

\* A placeholder text returned by View in place of the rows
Placeholder(text) ==
    [kind |-> text, start |-> 0, end |-> 0, rows |-> <<>>, input |-> NoInput]

\* View from "Build the list view" on: the rows and the input line; a slice
\* expression with bounds out of range is a run-time panic
ViewList(maxItems) ==
    LET r == VisibleRange(Len(filter.filteredRecords), cursor, maxItems)
    IN  IF r.start < 0 \/ r.start > r.end \/ r.end > Len(filter.filteredRecords)
        THEN [kind |-> "panic", start |-> r.start, end |-> r.end, rows |-> <<>>,
              input |-> NoInput]
        ELSE IF textCursor < 0 \/ textCursor > Len(filter.filter)
        THEN [kind |-> "panic", start |-> r.start, end |-> r.end, rows |-> <<>>,
              input |-> NoInput]
        ELSE [kind |-> "List", start |-> r.start, end |-> r.end,
              rows |-> ViewRows(r.start, r.end), input |-> ViewInput]

\* View without the "Window too small" check on maxItems
View_NoSizeCheck ==
    IF height = 0 THEN Placeholder("Loading...") ELSE ViewList(height - 2)

\* Model.View
View ==
    IF height = 0 THEN Placeholder("Loading...")
    ELSE LET maxItems == height - 2
         IN  IF maxItems <= 0 THEN Placeholder("Window too small")
             ELSE ViewList(maxItems)

-----------------------------------------------------------------------------
(* Properties *)

\* The fields of the Go Model value (the Filter included)
modelFields == <<filter, cursor, textCursor, selected, height>>

\* The events that edit the filter text
EditKeys == {"Runes", "Space", "Backspace", "CtrlW", "CtrlK"}

\* text contains t as a case-insensitive substring: at some offset the two
\* agree once both are lower-cased
ContainsFold(text, t) ==
    LET lt == ToLower(t)
        ltext == ToLower(text)
    IN  \E off \in 0..Len(ltext) :
            /\ off + Len(lt) <= Len(ltext)
            /\ \A j \in 1..Len(lt) : ltext[off + j] = lt[j]

\* The records of S, in S's order, whose command or arguments contain t
Matching(S, t) ==
    SelectSeq(S, LAMBDA r : ContainsFold(r.Command, t) \/ ContainsFold(r.Arguments, t))

\* C1: in every reachable state the filtered record list is exactly the
\* records of S, in S's order, whose command or arguments contain the filter
\* text as a case-insensitive substring, and it is S when the text is empty
C1_FilteredIsMatching ==
    /\ filter.filteredRecords = Matching(filter.records, filter.filter)
    /\ filter.filter = <<>> => filter.filteredRecords = filter.records

\* C1 witness: an upper-case filter text has narrowed three records to the
\* two that contain it in another case
C1_Witness ==
    /\ filter.filter = <<"G">>
    /\ Len(filter.records) = 3
    /\ Len(filter.filteredRecords) = 2

\* C2 (as claimed): every event that changes the filter text leaves the list
\* cursor at 0 when Update returns
C2_EditResetsCursor ==
    [][(msg'.key \in EditKeys /\ filter'.filter # filter.filter) => cursor' = 0]_vars

\* C3 (as claimed): the list cursor is never negative and, when the filtered
\* set is non-empty, is below its length
C3_CursorInRange ==
    /\ cursor >= 0
    /\ Len(filter.filteredRecords) > 0 => cursor < Len(filter.filteredRecords)

\* C4: in every reachable state 0 <= textCursor <= len(filter text)
C4_TextCursorInRange ==
    /\ 0 <= textCursor
    /\ textCursor <= Len(filter.filter)

\* C4 witness: Right was pressed with the caret at the end of a full-length
\* filter text and the caret stayed at the end
C4_Witness ==
    /\ msg = KeyMsg("Right")
    /\ Len(filter.filter) = MaxFilterLen
    /\ textCursor = Len(filter.filter)

\* C5 (as claimed): once an Update has returned the quit signal, every further
\* event leaves every field of the model unchanged
C5_TerminalIsFrozen ==
    [][quitSent => UNCHANGED modelFields]_vars

\* C6 (as claimed): once Selected() reports a record, it reports the same
\* record after every further event
C6_SelectionImmutable ==
    [][Selected.ok => Selected' = Selected]_vars

\* C7 (as claimed): Confirm in a running state with a non-empty filtered set
\* returns the quit signal and makes Selected() return
\* (filtered[listCursor], true)
C7_ConfirmSelects ==
    [][(msg' = KeyMsg("Enter") /\ ~quitSent /\ Len(filter.filteredRecords) > 0)
        => /\ cmd' = "Quit"
           /\ Selected'.ok
           /\ cursor < Len(filter.filteredRecords)
           /\ Selected'.record = filter.filteredRecords[cursor + 1]]_vars

\* C8 (as claimed): Confirm with an empty filtered set changes no field of the
\* model and does not end the session
C8_ConfirmEmptyIsNoOp ==
    [][(msg' = KeyMsg("Enter") /\ Len(filter.filteredRecords) = 0)
        => (UNCHANGED modelFields /\ cmd' # "Quit")]_vars

\* C8 (amended): Confirm with an empty filtered set records no selection
\* (Selected() reports (zero record, false) when Update returns) and leaves the
\* list cursor, the text cursor, the filter and the height unchanged, but it
\* sets the selected flag and returns the quit signal
C8_ConfirmEmptyQuits ==
    [][(msg' = KeyMsg("Enter") /\ Len(filter.filteredRecords) = 0)
        => /\ UNCHANGED <<filter, cursor, textCursor, height>>
           /\ selected'
           /\ cmd' = "Quit"
           /\ Selected' = [record |-> ZeroRecord, ok |-> FALSE, panic |-> FALSE]]_vars

\* C8 witness: Enter was handled while a non-empty filter text matched none
\* of three records
C8_Witness ==
    /\ msg = KeyMsg("Enter")
    /\ Len(filter.records) = 3
    /\ filter.filter # <<>>
    /\ Len(filter.filteredRecords) = 0
    /\ selected
    /\ ~Selected.ok

\* C9 (as claimed): Cancel in a running state returns the quit signal, leaves
\* no selection, and is recorded in the model: the model after Cancel differs
\* from the running model before it
C9_CancelRecorded ==
    [][(msg' = KeyMsg("CtrlC") /\ ~quitSent)
        => /\ cmd' = "Quit"
           /\ ~Selected'.ok
           /\ modelFields' # modelFields]_vars

\* C9 (amended): Cancel in a running state returns the quit signal and
\* Selected() reports no selection when Update returns; every field of the
\* model is left as it was, so the cancellation is carried by the returned
\* command only
C9_CancelQuits ==
    [][(msg' = KeyMsg("CtrlC") /\ ~quitSent)
        => /\ cmd' = "Quit"
           /\ Selected' = [record |-> ZeroRecord, ok |-> FALSE, panic |-> FALSE]
           /\ UNCHANGED modelFields]_vars

\* C9 witness: Ctrl-C was the first event to end the session, pressed on a
\* non-empty filtered list with the cursor off the first row
C9_Witness ==
    /\ msg = KeyMsg("CtrlC")
    /\ cmd = "Quit"
    /\ ~selected
    /\ cursor > 0
    /\ Len(filter.filteredRecords) > cursor

\* C10: MoveUp (Up or Ctrl-P) sets the list cursor to max(0, listCursor - 1)
C10_MoveUp ==
    [][msg'.key \in {"Up", "CtrlP"} => cursor' = Max(0, cursor - 1)]_vars

\* C10 witness: Ctrl-P has moved the cursor from the third row to the second
C10_Witness ==
    /\ msg = KeyMsg("CtrlP")
    /\ cursor = 1
    /\ Len(filter.filteredRecords) = 3

\* C11 (as claimed): MoveDown (Down or Ctrl-N) sets the list cursor to
\* min(len(filtered) - 1, listCursor + 1) in every reachable state
C11_MoveDownIsMin ==
    [][msg'.key \in {"Down", "CtrlN"}
        => cursor' = min(Len(filter.filteredRecords) - 1, cursor + 1)]_vars

\* C11 (amended): MoveDown sets the list cursor to
\* min(len(filtered) - 1, listCursor + 1) when the cursor is on a row of the
\* filtered set (listCursor <= len(filtered) - 1), so at the last index it is
\* unchanged; when the set is empty or the cursor is already past the last
\* index it leaves the cursor where it is
C11_MoveDownGuarded ==
    [][msg'.key \in {"Down", "CtrlN"}
        => cursor' = IF cursor <= Len(filter.filteredRecords) - 1
                     THEN min(Len(filter.filteredRecords) - 1, cursor + 1)
                     ELSE cursor]_vars

\* C11 witness: Down was handled and the cursor is on the last of three rows
C11_Witness ==
    /\ msg = KeyMsg("Down")
    /\ Len(filter.filteredRecords) = 3
    /\ cursor = 2

\* C12 (as claimed): repeated MoveUp brings the list cursor to 0 without it
\* ever being negative (every MoveUp keeps it >= 0 and lowers it while it is
\* above 0), and repeated MoveDown on a non-empty filtered set brings it to
\* len(filtered) - 1 without it ever exceeding that (every MoveDown leaves it
\* <= len(filtered) - 1 and raises it while it is below)
C12_MovesConverge ==
    [][/\ msg'.key \in {"Up", "CtrlP"}
            => /\ cursor' >= 0
               /\ cursor > 0 => cursor' < cursor
       /\ (msg'.key \in {"Down", "CtrlN"} /\ Len(filter.filteredRecords) > 0)
            => /\ cursor' <= Len(filter.filteredRecords) - 1
               /\ cursor < Len(filter.filteredRecords) - 1 => cursor' > cursor]_vars

-----------------------------------------------------------------------------
(* The Filter methods and findWordStart called directly, on any arguments *)

\* The bytes of the filter texts given to UpdateFilter
TextBytes == {"G", "l", " ", "xC3", "xA9"}
Texts == UNION {[1..n -> TextBytes] : n \in 0..MaxFilterLen}

\* The positions given to the cursor arguments: negative, inside and beyond
Positions == (0 - 1)..(MaxFilterLen + 1)

\* NewFilter(records) on a prefix of the pool
InitPure ==
    /\ \E n \in 0..MaxRecords : filter = NewFilter(SubSeq(RecordPool, 1, n))
    /\ cursor = 0
    /\ textCursor = 0
    /\ selected = FALSE
    /\ height = 0
    /\ cmd = "nil"
    /\ msg = NoMsg
    /\ quitSent = FALSE

\* filter.UpdateFilter(text)
CallUpdateFilter ==
    \E text \in Texts :
        /\ filter' = UpdateFilter(filter, text)
        /\ msg' = [type |-> "UpdateFilter", text |-> text]
        /\ UNCHANGED <<cursor, textCursor, selected, height, cmd, quitSent>>

\* filter.RemoveTextBeforeCursor(newPos, cursorPos)
CallRemoveTextBeforeCursor ==
    \E newPos \in Positions, cursorPos \in Positions :
        /\ filter' = RemoveTextBeforeCursor(filter, newPos, cursorPos)
        /\ msg' = [type |-> "RemoveTextBeforeCursor", newPos |-> newPos,
                   cursorPos |-> cursorPos]
        /\ UNCHANGED <<cursor, textCursor, selected, height, cmd, quitSent>>

\* findWordStart(filter.Filter(), pos); the returned index is kept in msg
CallFindWordStart ==
    \E pos \in Positions :
        /\ msg' = [type |-> "findWordStart", pos |-> pos,
                   result |-> findWordStart(filter.filter, pos)]
        /\ UNCHANGED <<filter, cursor, textCursor, selected, height, cmd, quitSent>>

NextPure ==
    \/ CallUpdateFilter
    \/ CallRemoveTextBeforeCursor
    \/ CallFindWordStart

SpecPure == InitPure /\ [][NextPure]_vars

\* C13: for every record sequence S and text t, UpdateFilter(t) sets the
\* filter text to t and yields exactly the records of S, in S's order, whose
\* lower-cased command or arguments contain lower-cased t; UpdateFilter("")
\* yields S, and on an empty S the result is empty
C13_UpdateFilterSelects ==
    msg.type = "UpdateFilter"
        => /\ filter.filter = msg.text
           /\ filter.filteredRecords = Matching(filter.records, msg.text)
           /\ msg.text = <<>> => filter.filteredRecords = filter.records
           /\ filter.records = <<>> => filter.filteredRecords = <<>>

\* C13 witness: UpdateFilter("l") on three records kept the two with an l
\* (one in its command, one in its arguments only)
C13_Witness ==
    /\ msg.type = "UpdateFilter"
    /\ msg.text = <<"l">>
    /\ Len(filter.records) = 3
    /\ Len(filter.filteredRecords) = 2

\* C14: UpdateFilter is idempotent: calling UpdateFilter(t) again on the
\* Filter that UpdateFilter(t) produced leaves the filter text and the
\* filtered list as they are
C14_UpdateFilterIdempotent ==
    msg.type = "UpdateFilter" => UpdateFilter(filter, msg.text) = filter

\* C14 witness: UpdateFilter("G") narrowed three records to some but not all
\* of them
C14_Witness ==
    /\ msg.type = "UpdateFilter"
    /\ msg.text = <<"G">>
    /\ Len(filter.records) = 3
    /\ Len(filter.filteredRecords) \in {1, 2}

\* pos clamped into [0, len(text)]
Clamp(text, pos) == IF pos < 0 THEN 0 ELSE IF pos > Len(text) THEN Len(text) ELSE pos

\* C15 (as claimed): InsertText(s) with the caret at p makes the filter text
\* old[:p] + s + old[p:] (p clamped into [0, len(old)]), re-filters against the
\* new text and sets textCursor to p + len(s), len(s) counted in bytes, the
\* unit that indexes the filter text
C15_InsertText ==
    [][msg'.key = "Runes"
        => LET s == EncodeRunes(msg'.runes)
               old == filter.filter
               p == Clamp(old, textCursor)
           IN  /\ filter'.filter = Slice(old, 0, p) \o s \o Slice(old, p, Len(old))
               /\ filter'.filteredRecords = Matching(filter.records, filter'.filter)
               /\ textCursor' = p + Len(s)]_vars

DeleteRange(text, from, to) ==
    LET lo == Clamp(text, from)
        hi == Clamp(text, to)
    IN  IF lo < hi THEN Slice(text, 0, lo) \o Slice(text, hi, Len(text)) ELSE text

\* C17: for every text and every pair (from, to), negative and beyond-length
\* values included, RemoveTextBeforeCursor(from, to) produces the text of the
\* reference deleteRange
C17_RemoveTextIsDeleteRange ==
    [][msg'.type = "RemoveTextBeforeCursor"
        => filter'.filter = DeleteRange(filter.filter, msg'.newPos, msg'.cursorPos)]_vars

\* C17 witness: RemoveTextBeforeCursor(-1, 1) removed the first byte of a
\* two-byte text
C17_Witness ==
    /\ msg.type = "RemoveTextBeforeCursor"
    /\ msg.newPos = 0 - 1
    /\ msg.cursorPos = 1
    /\ Len(filter.filter) = 1

\* The index reached by scanning backward from p over the run of spaces
\* immediately before p and then over the run of non-spaces before that
WordStartBefore(text, p) ==
    LET q == CHOOSE i \in 0..p :
                 /\ \A j \in (i + 1)..p : text[j] = " "
                 /\ i = 0 \/ text[i] # " "
    IN  CHOOSE i \in 0..q :
            /\ \A j \in (i + 1)..q : text[j] # " "
            /\ i = 0 \/ text[i] = " "

\* C18: DeleteWordBackward (Ctrl-W) with the caret at p removes exactly the
\* range [w, p) of the filter text and sets textCursor to w, w being the word
\* start before p; the filtered set is recomputed from the new text
C18_DeleteWordBackward ==
    [][msg'.key = "CtrlW"
        => LET old == filter.filter
               p == textCursor
               w == WordStartBefore(old, p)
           IN  /\ filter'.filter = Slice(old, 0, w) \o Slice(old, p, Len(old))
               /\ textCursor' = w
               /\ filter'.filteredRecords = Matching(filter.records, filter'.filter)]_vars

\* C18 witness: Ctrl-W at the end of " G" removed the word and kept the space
\* before it, with the caret after the space
C18_Witness ==
    /\ msg = KeyMsg("CtrlW")
    /\ filter.filter = <<" ">>
    /\ textCursor = 1

\* C19: DeleteToLineEnd (Ctrl-K) with the caret at p truncates the filter text
\* to its first p elements, leaves textCursor equal to p, which is then the
\* length of the new text, and re-filters
C19_DeleteToLineEnd ==
    [][msg'.key = "CtrlK"
        => /\ filter'.filter = Slice(filter.filter, 0, textCursor)
           /\ textCursor' = textCursor
           /\ textCursor' = Len(filter'.filter)
           /\ filter'.filteredRecords = Matching(filter.records, filter'.filter)]_vars

\* C19 witness: Ctrl-K was handled and the text ends at the caret, after its
\* one remaining byte, which narrows three records to two
C19_Witness ==
    /\ msg = KeyMsg("CtrlK")
    /\ filter.filter = <<"G">>
    /\ textCursor = 1
    /\ Len(filter.records) = 3
    /\ Len(filter.filteredRecords) = 2

\* C20 (as claimed): for every text and every integer position pos,
\* findWordStart(text, pos) is never negative and never greater than pos
C20_WordStartInRange ==
    msg.type = "findWordStart" => (msg.result >= 0 /\ msg.result <= msg.pos)

\* C20 (amended): for every text and every integer position pos,
\* findWordStart(text, pos) is never greater than pos; it is never negative
\* when pos >= 0, and a negative pos is returned as it is
C20_WordStartBounded ==
    msg.type = "findWordStart"
        => /\ msg.result <= msg.pos
           /\ msg.pos >= 0 => msg.result >= 0
           /\ msg.pos < 0 => msg.result = msg.pos

\* C20 witness: findWordStart("G ", 2) skipped the space and the word and
\* returned 0
C20_Witness ==
    /\ msg.type = "findWordStart"
    /\ filter.filter = <<"G", " ">>
    /\ msg.pos = 2
    /\ msg.result = 0

-----------------------------------------------------------------------------
(* Round trips, the view and the frame of the events *)

\* The model fields a Backspace (case tea.KeyBackspace) leaves when it is
\* handled with Filter f and textCursor tc
Backspace(f, tc) ==
    IF Len(f.filter) > 0 /\ tc > 0
    THEN [filter |-> RemoveCharBeforeCursor(f, tc), textCursor |-> tc - 1]
    ELSE [filter |-> f, textCursor |-> tc]

\* C21 (as claimed): inserting a string at the caret (InsertText) and then
\* deleting once before the resulting caret (Backspace) restores the filter
\* text and the caret position that preceded the insertion
C21_InsertThenDelete ==
    [][msg'.key = "Runes"
        => LET b == Backspace(filter', textCursor')
           IN  /\ b.filter.filter = filter.filter
               /\ b.textCursor = textCursor]_vars

-----------------------------------------------------------------------------
(* A session over a long record list: navigation, resizing and a filter *)
(* text of G's, with View read in every state                            *)

MaxViewRecords == 10
MaxViewHeight == 7

\* The records of the long list: ls -la (succeeded) and git log (failed) in turn
ViewRecords(n) ==
    [i \in 1..n |-> IF i % 2 = 1
                    THEN Record(i, <<"l", "s">>, <<"-", "l", "a">>, 0)
                    ELSE Record(i, <<"g", "i", "t">>, <<"l", "o", "g">>, 1)]

ViewHeights == (0 - 1)..MaxViewHeight

\* NewUI(NewFilter(records)) on a list of up to MaxViewRecords records
InitView ==
    /\ \E n \in 0..MaxViewRecords : filter = NewFilter(ViewRecords(n))
    /\ cursor = 0
    /\ textCursor = 0
    /\ selected = FALSE
    /\ height = 0
    /\ cmd = "nil"
    /\ msg = NoMsg
    /\ quitSent = FALSE

\* case tea.KeyRunes, the letter G typed
KeyRunesG == KeyRunes /\ msg'.runes = <<"G">>

\* case tea.WindowSizeMsg, heights up to MaxViewHeight
WindowSizeView == \E h \in ViewHeights : Resize(h)

NextView ==
    \/ KeyUp
    \/ KeyDown
    \/ KeyRunesG
    \/ KeyBackspace
    \/ WindowSizeView

SpecView == InitView /\ [][NextView]_vars

\* C22 (as claimed): for a viewport of height h > 0 the number of rows for
\* records is maxItems = h, and the visible range is [0, total) if
\* total <= maxItems, [0, maxItems) if total > maxItems and cursor < maxItems,
\* and [cursor - maxItems + 1, cursor + 1) otherwise
C22_RangeWithFullHeight ==
    height > 0
        => LET total == Len(filter.filteredRecords)
               maxItems == height
           IN  /\ View.kind = "List"
               /\ <<View.start, View.end>> =
                      IF total <= maxItems THEN <<0, total>>
                      ELSE IF cursor < maxItems THEN <<0, maxItems>>
                      ELSE <<cursor - maxItems + 1, cursor + 1>>

\* C22 (amended): two rows of the viewport are reserved, so for a height
\* h > 2 the number of rows for records is maxItems = h - 2 and heights 1 and
\* 2 give the "Window too small" placeholder; the visible range is [0, total)
\* if total <= maxItems, [0, maxItems) if total > maxItems and
\* cursor < maxItems, and [cursor - maxItems + 1, cursor + 1) if
\* total > maxItems and maxItems <= cursor < total
C22_RangeWithReservedRows ==
    LET total == Len(filter.filteredRecords)
        maxItems == height - 2
        range == <<View.start, View.end>>
    IN  /\ height \in {1, 2} => View.kind = "Window too small"
        /\ height > 2 =>
            /\ total <= maxItems => (View.kind = "List" /\ range = <<0, total>>)
            /\ (total > maxItems /\ cursor < maxItems)
                => (View.kind = "List" /\ range = <<0, maxItems>>)
            /\ (total > maxItems /\ cursor >= maxItems /\ cursor < total)
                => (View.kind = "List" /\ range = <<cursor - maxItems + 1, cursor + 1>>)

\* C22 witness: ten records, the cursor on the eighth and a height of 5 show
\* the three rows [5, 8)
C22_Witness ==
    /\ Len(filter.filteredRecords) = 10
    /\ cursor = 7
    /\ height = 5
    /\ View.kind = "List"
    /\ View.start = 5
    /\ View.end = 8

\* C23: for every total, every cursor with 0 <= cursor < total and every
\* positive number of item rows maxItems, the visible range [start, end) of
\* View contains the cursor and has length min(total, maxItems), the row of
\* the cursor is the one rendered as selected, and when total > maxItems and
\* cursor >= maxItems the cursor is the last visible row
C23_CursorVisible ==
    LET total == Len(filter.filteredRecords)
        maxItems == height - 2
    IN  (height # 0 /\ maxItems > 0 /\ 0 <= cursor /\ cursor < total)
            => /\ View.kind = "List"
               /\ View.start <= cursor
               /\ cursor < View.end
               /\ View.end - View.start = min(total, maxItems)
               /\ Len(View.rows) = View.end - View.start
               /\ \A i \in 1..Len(View.rows) :
                      View.rows[i].selected <=> (View.start + i - 1 = cursor)
               /\ (total > maxItems /\ cursor >= maxItems) => cursor = View.end - 1

\* C23 witness: the boundary cursor = maxItems: ten records, three item rows
\* (height 5) and the cursor on row 3, the last of the visible rows [1, 4)
C23_Witness ==
    /\ Len(filter.filteredRecords) = 10
    /\ height = 5
    /\ cursor = 3
    /\ View.kind = "List"
    /\ View.start = 1
    /\ View.end = 4
    /\ View.rows[3].selected

\* C24 (as claimed): whenever the stored height is <= 0, View produces the one
\* degraded "no room to render" placeholder, renders no record rows and does
\* not fail
C24_NoRoomPlaceholder ==
    height <= 0 => (View.kind = "Window too small" /\ View.rows = <<>>)

\* C24 (amended): whenever the stored height is <= 2, View renders no record
\* rows and returns a placeholder without failing: "Loading..." when the
\* height is 0 (no size received yet) and "Window too small" for every other
\* height <= 2, negative heights included; a height > 2 gives no placeholder
C24_Placeholders ==
    /\ height = 0 => View = Placeholder("Loading...")
    /\ (height # 0 /\ height <= 2) => View = Placeholder("Window too small")
    /\ height > 2 => View.kind \notin {"Loading...", "Window too small"}

\* C24 witness: a resize to a negative height on a non-empty list gave the
\* "Window too small" placeholder and no rows
C24_Witness ==
    /\ msg = WindowSizeMsg(0 - 1)
    /\ height = 0 - 1
    /\ Len(filter.filteredRecords) > 0
    /\ View.kind = "Window too small"
    /\ View.rows = <<>>

\* C25: a Resize(height) event stores the new height and changes nothing
\* else: the list cursor, the text cursor, the filter text, the filtered set
\* and the selection flag are unchanged, and no quit signal is returned
C25_ResizeStoresHeight ==
    [][msg'.type = "WindowSizeMsg"
        => /\ height' = msg'.height
           /\ UNCHANGED <<filter, cursor, textCursor, selected>>
           /\ cmd' = "nil"]_vars

\* C25 witness: a resize to height 3 was handled with the list cursor off the
\* first row and the caret inside a non-empty filter text
C25_Witness ==
    /\ msg = WindowSizeMsg(3)
    /\ height = 3
    /\ cursor > 0
    /\ filter.filter # <<>>
    /\ textCursor > 0
    /\ ~selected

\* C26: CursorLeft, CursorRight, Home (Ctrl-A) and End (Ctrl-E) change only
\* the text cursor p, to max(0, p - 1), min(len, p + 1), 0 and len(filter
\* text) respectively; the filter text, the filtered set, the list cursor and
\* every other field are unchanged and no quit signal is returned
C26_CaretMoves ==
    [][msg'.key \in {"Left", "Right", "CtrlA", "CtrlE"}
        => /\ textCursor' =
                  CASE msg'.key = "Left"  -> Max(0, textCursor - 1)
                    [] msg'.key = "Right" -> min(Len(filter.filter), textCursor + 1)
                    [] msg'.key = "CtrlA" -> 0
                    [] msg'.key = "CtrlE" -> Len(filter.filter)
           /\ UNCHANGED <<filter, cursor, selected, height>>
           /\ cmd' = "nil"]_vars

\* C26 witness: Left was handled and the caret is at the start of a two-byte
\* filter text, with the list cursor off the first row
C26_Witness ==
    /\ msg = KeyMsg("Left")
    /\ textCursor = 0
    /\ Len(filter.filter) = 2
    /\ cursor > 0

\* C27: the initial state produced by NewUI(NewFilter(S)), the state no
\* message has been handled in, has an empty filter text, textCursor = 0,
\* listCursor = 0, a filtered set equal to S in S's order, and a running
\* session: no selection (Selected() reports none) and no quit signal
C27_InitialState ==
    msg = NoMsg
        => /\ filter.filter = <<>>
           /\ textCursor = 0
           /\ cursor = 0
           /\ filter.filteredRecords = filter.records
           /\ ~selected
           /\ Selected = [record |-> ZeroRecord, ok |-> FALSE, panic |-> FALSE]
           /\ cmd = "nil"
           /\ ~quitSent

\* C27 witness: the initial state of a session over three records
C27_Witness ==
    /\ msg = NoMsg
    /\ filter.records = SubSeq(RecordPool, 1, 3)
    /\ Len(filter.filteredRecords) = 3

\* C28 (as claimed): in any running state, typing a single character at the
\* caret (a one-rune key press or the space bar) and then pressing Backspace
\* restores the previous filter text, the previous textCursor and the
\* previous filtered set in its order
C28_TypeThenBackspace ==
    [][(/\ ~quitSent
        /\ \/ msg'.key = "Runes" /\ Len(msg'.runes) = 1
           \/ msg'.key = "Space")
        => LET b == Backspace(filter', textCursor')
           IN  /\ b.filter.filter = filter.filter
               /\ b.textCursor = textCursor
               /\ b.filter.filteredRecords = filter.filteredRecords]_vars

\* C29: the full record set held by the Filter is never changed by any event:
\* after every Update it is the same sequence of records, with the same
\* fields, as before, and every record listed in the filtered set is one of
\* them, unmodified
C29_RecordsImmutable ==
    [][/\ filter'.records = filter.records
       /\ \A i \in 1..Len(filter'.filteredRecords) :
              \E j \in 1..Len(filter.records) :
                  filter'.filteredRecords[i] = filter.records[j]]_vars

\* C29 witness: a Backspace left the filter text "G", which lists two of the
\* three records the session was started with
C29_Witness ==
    /\ msg = KeyMsg("Backspace")
    /\ filter.filter = <<"G">>
    /\ filter.records = SubSeq(RecordPool, 1, 3)
    /\ Len(filter.filteredRecords) = 2

\* C30: Selected() reports no selection in every state reached without a
\* Confirm event: the selected flag is false initially, no event other than
\* Confirm changes it, and while it is false Selected() returns
\* (zero record, false)
C30_NoSelectionWithoutConfirm ==
    /\ ~selected
    /\ Selected = [record |-> ZeroRecord, ok |-> FALSE, panic |-> FALSE]
    /\ [][/\ msg' # KeyMsg("Enter") => selected' = selected
          /\ ~selected' => Selected' = [record |-> ZeroRecord, ok |-> FALSE,
                                        panic |-> FALSE]]_vars

\* C30 witness: after typing and moving down, with no selection made, the
\* cursor is on the second of two listed records and Selected() reports none
C30_Witness ==
    /\ msg = KeyMsg("Down")
    /\ filter.filter = <<"G">>
    /\ Len(filter.filteredRecords) = 2
    /\ cursor = 1
    /\ ~selected
    /\ ~quitSent
    /\ ~Selected.ok

-----------------------------------------------------------------------------
(* Configuration: LoadConfig(fsys, args), called once at start-up.  No byte *)
(* of these strings is ever indexed, so they are written as plain strings. *)

\* A flag or a TOML key that was given, with its value, or was not given
Given(v) == [set |-> TRUE, value |-> v]
NoString == [set |-> FALSE, value |-> ""]
NoInt == [set |-> FALSE, value |-> 0]
NoList == [set |-> FALSE, value |-> <<>>]

\* getDefaultDBPath
getDefaultDBPath == ".local/share/retour/history.db"

\* filepath.Join(".config", "retour", "config.toml")
defaultConfigPath == ".config/retour/config.toml"

\* The paths that exist on the machine, as os.Stat sees them
OsPaths == {"/tmp", "my.toml"}

\* The command lines: each flag absent or given with one of these values.
\* Every argument is a well-formed flag; a malformed one ends the process
\* inside flags.Parse (flag.ExitOnError) and LoadConfig does not return.
CommandLines ==
    [l : {NoInt, Given(0 - 1), Given(0), Given(25)},
     r : {NoString, Given("success"), Given("failed"), Given("all"), Given("invalid")},
     t : {NoString, Given("today"), Given("yesterday"), Given("thelastweek"),
          Given("alltime"), Given("invalid")},
     w : {NoString, Given("/tmp"), Given("/nonexistent/path")},
     q : {NoString, Given("SELECT * FROM history")},
     c : {NoString, Given("my.toml"), Given("invalid")}]

\* What fsys holds at the config path: no file, a file that cannot be opened,
\* a file that is not valid TOML, or a TOML file with some of these keys
ConfigFiles ==
    [kind : {"absent", "unreadable", "malformed"},
     connection_string : {NoString}, limit : {NoInt},
     exclusion_patterns : {NoList}, TimeRange : {NoString}]
    \cup
    [kind : {"toml"},
     connection_string : {NoString, Given(""), Given("test.db")},
     limit : {NoInt, Given(0), Given(50)},
     exclusion_patterns : {NoList, Given(<<"^sudo", "^ssh">>)},
     TimeRange : {NoString, Given("today"), Given("invalid")}]

\* The value a flag variable holds after flags.Parse
FlagValue(flag, default) == IF flag.set THEN flag.value ELSE default

\* The nil *Config returned with an error
NilConfig ==
    [ConnectionString |-> "", RetentionPeriod |-> "", ExclusionPatterns |-> <<>>,
     Limit |-> 0, WorkingDirectory |-> "", Mode |-> "", Query |-> "",
     Result |-> "", TimeRange |-> ""]

Failed(message) == [config |-> NilConfig, nil |-> TRUE, err |-> message]
Loaded(config) == [config |-> config, nil |-> FALSE, err |-> "nil"]

\* parseCommandLine: the Config after the flags are applied to the literal of
\* LoadConfig, and the error for an explicit config path that does not exist
parseCommandLine(args) ==
    LET query == FlagValue(args.q, "")
        configPath == FlagValue(args.c, defaultConfigPath)
        config == [ConnectionString  |-> "",
                   RetentionPeriod   |-> "",
                   ExclusionPatterns |-> <<>>,
                   Limit             |-> FlagValue(args.l, 100),
                   WorkingDirectory  |-> FlagValue(args.w, ""),
                   Mode              |-> IF query # "" THEN "query" ELSE "interactive",
                   Query             |-> query,
                   Result            |-> FlagValue(args.r, "all"),
                   TimeRange         |-> FlagValue(args.t, "alltime")]
    IN  IF configPath # defaultConfigPath /\ configPath \notin OsPaths
        THEN [config |-> config, err |-> "config file does not exist"]
        ELSE [config |-> config, err |-> "nil"]

\* toml Decode into the Config: a key of the file replaces the field's value,
\* a field with no key in the file keeps the value it has
Decode(config, file) ==
    [config EXCEPT
        !.ConnectionString = FlagValue(file.connection_string, @),
        !.Limit = FlagValue(file.limit, @),
        !.ExclusionPatterns = FlagValue(file.exclusion_patterns, @),
        !.TimeRange = FlagValue(file.TimeRange, @)]

\* readConfig that sets no default connection string when there is no file
readConfig_NoDefault(config, file) ==
    CASE file.kind = "absent" -> [config |-> config, err |-> "nil"]
      [] file.kind = "unreadable" ->
            [config |-> config, err |-> "failed to read config file"]
      [] file.kind = "malformed" ->
            [config |-> config, err |-> "failed to decode config file"]
      [] OTHER ->
            LET decoded == Decode(config, file)
            IN  [config |-> IF decoded.ConnectionString = ""
                            THEN [decoded EXCEPT !.ConnectionString = getDefaultDBPath]
                            ELSE decoded,
                 err |-> "nil"]

\* readConfig
readConfig(config, file) ==
    CASE file.kind = "absent" ->
            [config |-> [config EXCEPT !.ConnectionString = getDefaultDBPath],
             err |-> "nil"]
      [] file.kind = "unreadable" ->
            [config |-> config, err |-> "failed to read config file"]
      [] file.kind = "malformed" ->
            [config |-> config, err |-> "failed to decode config file"]
      [] OTHER ->
            LET decoded == Decode(config, file)
            IN  [config |-> IF decoded.ConnectionString = ""
                            THEN [decoded EXCEPT !.ConnectionString = getDefaultDBPath]
                            ELSE decoded,
                 err |-> "nil"]

\* validateConfig without the check of the limit
validateConfig_NoLimitCheck(config) ==
    IF config.Mode \notin {"interactive", "query"} THEN "invalid mode"
    ELSE IF config.TimeRange \notin {"today", "yesterday", "thelastweek", "alltime"}
        THEN "invalid time range"
    ELSE IF config.Result \notin {"success", "failed", "all"}
        THEN "invalid result filter"
    ELSE IF config.WorkingDirectory # "" /\ config.WorkingDirectory \notin OsPaths
        THEN "invalid working directory"
    ELSE IF config.ConnectionString = "" THEN "connection string is empty"
    ELSE "nil"

\* validateConfig: the first check that fails
validateConfig(config) ==
    IF config.Mode \notin {"interactive", "query"} THEN "invalid mode"
    ELSE IF config.TimeRange \notin {"today", "yesterday", "thelastweek", "alltime"}
        THEN "invalid time range"
    ELSE IF config.Result \notin {"success", "failed", "all"}
        THEN "invalid result filter"
    ELSE IF config.WorkingDirectory # "" /\ config.WorkingDirectory \notin OsPaths
        THEN "invalid working directory"
    ELSE IF config.Limit <= 0 THEN "limit must be greater than 0"
    ELSE IF config.ConnectionString = "" THEN "connection string is empty"
    ELSE "nil"

\* LoadConfig
LoadConfig(file, args) ==
    LET parsed == parseCommandLine(args)
        read == readConfig(parsed.config, file)
    IN  IF parsed.err # "nil" THEN Failed(parsed.err)
        ELSE IF read.err # "nil" THEN Failed(read.err)
        ELSE IF validateConfig(read.config) # "nil" THEN Failed(validateConfig(read.config))
        ELSE Loaded(read.config)

\* The state before the program has called anything
InitCall ==
    /\ filter = NewFilter(<<>>)
    /\ cursor = 0
    /\ textCursor = 0
    /\ selected = FALSE
    /\ height = 0
    /\ cmd = "nil"
    /\ msg = NoMsg
    /\ quitSent = FALSE

\* config.LoadConfig(fsys, args), once; the call and what it returned are
\* kept in msg
CallLoadConfig ==
    /\ msg = NoMsg
    /\ \E args \in CommandLines, file \in ConfigFiles :
           msg' = [type |-> "LoadConfig", args |-> args, file |-> file,
                   result |-> LoadConfig(file, args)]
    /\ UNCHANGED <<filter, cursor, textCursor, selected, height, cmd, quitSent>>

NextConfig == CallLoadConfig

SpecConfig == InitCall /\ [][NextConfig]_vars

\* C31 (as claimed): command-line arguments take precedence over config-file
\* settings: when the limit is given on the command line and LoadConfig
\* returns a Config, its Limit is the command-line value, whatever the config
\* file sets
C31_CommandLineWins ==
    (msg.type = "LoadConfig" /\ msg.args.l.set /\ ~msg.result.nil)
        => msg.result.config.Limit = msg.args.l.value

\* The value of a setting in effect after the command line and the config
\* file are combined as LoadConfig combines them: the file's value when a
\* readable file has the key, else the flag's value, else the default
Effective(fileKey, flag, default) ==
    IF fileKey.set THEN fileKey.value ELSE FlagValue(flag, default)

\* The config file can be found and decoded
Readable(args, file) ==
    /\ args.c.set => args.c.value \in OsPaths
    /\ file.kind \in {"absent", "toml"}

PlainCommandLine(args) ==
    /\ ~args.c.set
    /\ ~args.l.set
    /\ FlagValue(args.r, "all") \in {"success", "failed", "all"}
    /\ FlagValue(args.t, "alltime") \in {"today", "yesterday", "thelastweek", "alltime"}
    /\ ~args.w.set \/ args.w.value \in OsPaths

-----------------------------------------------------------------------------
(* The record store: Insert and QueryFiltered on the history table.  A     *)
(* timestamp is an instant (an integer), Now the instant of the query.     *)

MaxRows == 2

Now == 3
Timestamps == 1..Now

\* The records handed to Insert: when, where and with what exit status
InsertedRecords ==
    {[Record(0, <<"l", "s">>, <<"-", "l", "a">>, e)
        EXCEPT !.Timestamp = t, !.WorkingDirectory = w] :
        t \in Timestamps, w \in {"/home/user", "/tmp"}, e \in {0, 1}}

\* DB.Insert: the row is appended with the next id (AUTOINCREMENT)
Insert(history, record) ==
    Append(history, [record EXCEPT !.ID = Len(history) + 1])

\* The history table after the records of a sequence were inserted in turn
RECURSIVE InsertAll(_)
InsertAll(records) ==
    IF records = <<>> THEN <<>>
    ELSE Insert(InsertAll(SubSeq(records, 1, Len(records) - 1)), records[Len(records)])

Histories ==
    {InsertAll(records) : records \in UNION {[1..n -> InsertedRecords] : n \in 0..MaxRows}}

\* The arguments of QueryFiltered
TimeRanges == {0 - 1, 0, 1, 2}
ResultFilters == {"success", "failed", "all", ""}
WorkingDirs == {"", "/tmp"}
Limits == {0 - 1, 0, 1, 2}

\* QueryFiltered: the WHERE clause built from the arguments
Where(row, timeRange, resultFilter, workingDir) ==
    /\ timeRange > 0 => row.Timestamp >= Now - timeRange
    /\ workingDir # "" => row.WorkingDirectory = workingDir
    /\ CASE resultFilter = "success" -> row.ExitStatus = 0
         [] resultFilter = "failed"  -> row.ExitStatus # 0
         [] OTHER                    -> TRUE

\* ORDER BY timestamp DESC: the orders the rows can be returned in; rows with
\* equal timestamps come in an order SQL leaves open
OrderByTimestampDesc(rows) ==
    {s \in [1..Len(rows) -> {rows[i] : i \in 1..Len(rows)}] :
        /\ \A i, j \in 1..Len(rows) : i # j => s[i] # s[j]
        /\ \A i \in 1..(Len(rows) - 1) : s[i].Timestamp >= s[i + 1].Timestamp}

\* A LIMIT clause added for every limit >= 0
ApplyLimit_AlsoZero(rows, limit) ==
    IF limit >= 0 THEN SubSeq(rows, 1, min(limit, Len(rows))) ELSE rows

\* QueryFiltered: LIMIT ? is added only when limit > 0
ApplyLimit(rows, limit) ==
    IF limit > 0 THEN SubSeq(rows, 1, min(limit, Len(rows))) ELSE rows

\* DB.QueryFiltered on a history table: the (records, err) it can return
QueryFiltered(history, timeRange, resultFilter, workingDir, limit) ==
    LET rows == SelectSeq(history,
                    LAMBDA row : Where(row, timeRange, resultFilter, workingDir))
    IN  {[records |-> ApplyLimit(s, limit), err |-> "nil"] : s \in OrderByTimestampDesc(rows)}

\* db.QueryFiltered(timeRange, resultFilter, workingDir, limit), once, on a
\* store some records were inserted into; a failing db.conn.Query gives
\* (nil, err)
CallQueryFiltered ==
    /\ msg = NoMsg
    /\ \E history \in Histories, timeRange \in TimeRanges,
          resultFilter \in ResultFilters, workingDir \in WorkingDirs, limit \in Limits :
           \E result \in QueryFiltered(history, timeRange, resultFilter, workingDir, limit)
                         \cup {[records |-> <<>>, err |-> "query failed"]} :
               msg' = [type |-> "QueryFiltered", history |-> history,
                       timeRange |-> timeRange, resultFilter |-> resultFilter,
                       workingDir |-> workingDir, limit |-> limit, result |-> result]
    /\ UNCHANGED <<filter, cursor, textCursor, selected, height, cmd, quitSent>>

NextDB == CallQueryFiltered

SpecDB == InitCall /\ [][NextDB]_vars

\* C34: a QueryFiltered that succeeds returns exactly stored records that
\* satisfy every active filter (timestamp not older than timeRange when
\* timeRange > 0; working directory equal to workingDir when non-empty; exit
\* status 0 for "success", non-zero for "failed", any otherwise), each once,
\* ordered by timestamp newest-first; all of them when limit <= 0, and when
\* limit > 0 the first limit of them: no record left out is newer than one
\* returned
C34_QueryFiltered ==
    (msg.type = "QueryFiltered" /\ msg.result.err = "nil")
        => LET records == msg.result.records
               Satisfies(row) ==
                   /\ msg.timeRange > 0 => Now - row.Timestamp <= msg.timeRange
                   /\ msg.workingDir # "" => row.WorkingDirectory = msg.workingDir
                   /\ msg.resultFilter = "success" => row.ExitStatus = 0
                   /\ msg.resultFilter = "failed" => row.ExitStatus # 0
               satisfying == {i \in 1..Len(msg.history) : Satisfies(msg.history[i])}
               returned == {i \in 1..Len(msg.history) :
                               \E k \in 1..Len(records) : records[k] = msg.history[i]}
           IN  /\ \A k \in 1..Len(records) :
                      \E i \in satisfying : records[k] = msg.history[i]
               /\ \A k, l \in 1..Len(records) : k # l => records[k] # records[l]
               /\ \A k \in 1..(Len(records) - 1) :
                      records[k].Timestamp >= records[k + 1].Timestamp
               /\ Len(records) = IF msg.limit > 0
                                 THEN min(msg.limit, Cardinality(satisfying))
                                 ELSE Cardinality(satisfying)
               /\ \A i \in satisfying \ returned : \A k \in 1..Len(records) :
                      msg.history[i].Timestamp <= records[k].Timestamp

\* C34 witness: of two stored records in /tmp, the older one failed and the
\* newer one succeeded; the query for the failed ones of the last two hours
\* in /tmp with limit 1 returned the older one alone
C34_Witness ==
    /\ msg.type = "QueryFiltered"
    /\ Len(msg.history) = 2
    /\ msg.history[1].Timestamp = 1
    /\ msg.history[1].ExitStatus = 1
    /\ msg.history[2].Timestamp = 2
    /\ msg.history[2].ExitStatus = 0
    /\ msg.timeRange = 2
    /\ msg.resultFilter = "failed"
    /\ msg.workingDir = "/tmp"
    /\ msg.limit = 1
    /\ msg.result = [records |-> <<msg.history[1]>>, err |-> "nil"]

\* C35 (as claimed): View never indexes out of range: in every reachable
\* state with height > 2 the slice bounds it computes satisfy
\* 0 <= start <= end <= len(filtered set), and the filter text is split at a
\* textCursor within [0, len(filter text)]
C35_ViewInRange ==
    height > 2
        => LET total == Len(filter.filteredRecords)
               r == VisibleRange(total, cursor, height - 2)
           IN  /\ 0 <= r.start
               /\ r.start <= r.end
               /\ r.end <= total
               /\ 0 <= textCursor
               /\ textCursor <= Len(filter.filter)
               /\ View.kind # "panic"

\* C36 (as claimed): Selected() never indexes out of range: in every state
\* reached by a sequence of events ending in Confirm, either the filtered set
\* is empty and Selected() reports no selection, or listCursor is below the
\* length of the filtered set and Selected() returns filtered[listCursor]
C36_SelectedInRange ==
    msg = KeyMsg("Enter")
        => \/ /\ Len(filter.filteredRecords) = 0
              /\ Selected = [record |-> ZeroRecord, ok |-> FALSE, panic |-> FALSE]
           \/ /\ 0 <= cursor
              /\ cursor < Len(filter.filteredRecords)
              /\ Selected = [record |-> filter.filteredRecords[cursor + 1],
                             ok |-> TRUE, panic |-> FALSE]

\* C37: Update returns the quit signal for Confirm (Enter) and Cancel
\* (Ctrl-C) and for nothing else: every other key event and Resize return no
\* command
C37_QuitOnlyOnConfirmOrCancel ==
    [][cmd' = "Quit" <=> (msg'.type = "KeyMsg" /\ msg'.key \in {"Enter", "CtrlC"})]_vars

\* C37 witness: after typing, moving down and a Ctrl-K no quit signal has
\* been returned
C37_Witness ==
    /\ msg = KeyMsg("CtrlK")
    /\ cmd = "nil"
    /\ ~quitSent
    /\ cursor > 0
    /\ filter.filter # <<>>

\* C38: MoveUp, MoveDown, Confirm and Cancel never change the filter text,
\* textCursor, the filtered set (nor the full record set) or the viewport
\* height
C38_NavigationFrame ==
    [][msg'.key \in {"Up", "CtrlP", "Down", "CtrlN", "Enter", "CtrlC"}
        => UNCHANGED <<filter, textCursor, height>>]_vars

\* C38 witness: Enter was handled with the caret inside a two-byte filter
\* text and a height of 3, all still in place
C38_Witness ==
    /\ msg = KeyMsg("Enter")
    /\ Len(filter.filter) = 2
    /\ textCursor = 1
    /\ height = 3

\* C39 (as claimed): editing events preserve the text on the far side of the
\* caret: InsertText, Space, Backspace and DeleteWordBackward leave the part
\* of the filter text after the caret unchanged, so len(filter text) -
\* textCursor is the same before and after, and DeleteToLineEnd leaves the
\* part before the caret unchanged
C39_FarSidePreserved ==
    [][/\ msg'.key \in {"Runes", "Space", "Backspace", "CtrlW"}
            => /\ Slice(filter'.filter, textCursor', Len(filter'.filter))
                      = Slice(filter.filter, textCursor, Len(filter.filter))
               /\ Len(filter'.filter) - textCursor' = Len(filter.filter) - textCursor
       /\ msg'.key = "CtrlK"
            => Slice(filter'.filter, 0, textCursor') = Slice(filter.filter, 0, textCursor)]_vars

\* a is a subsequence of b
RECURSIVE IsSubseq(_, _)
IsSubseq(a, b) ==
    IF a = <<>> THEN TRUE
    ELSE IF b = <<>> THEN FALSE
    ELSE IF Head(a) = Head(b) THEN IsSubseq(Tail(a), Tail(b))
    ELSE IsSubseq(a, Tail(b))

\* C40 (as claimed): with the caret at the end (or at position 0) of the
\* filter text, InsertText yields a filtered set that is a subsequence of the
\* previous one; a Backspace with the caret at the end yields a filtered set
\* of which the previous one is a subsequence; and every record listed is one
\* of the full set
C40_MonotoneAtEnds ==
    [][/\ (msg'.key = "Runes" /\ textCursor \in {0, Len(filter.filter)})
            => IsSubseq(filter'.filteredRecords, filter.filteredRecords)
       /\ (msg'.key = "Backspace" /\ textCursor = Len(filter.filter))
            => IsSubseq(filter.filteredRecords, filter'.filteredRecords)
       /\ IsSubseq(filter'.filteredRecords, filter.records)]_vars

=============================================================================
